---- MODULE Spec2Model ----
(***************************************************************************)
(* Model of the contribution leaderboard scripts:                          *)
(*   scripts/assign_points.py     (the Scoring Processor)                  *)
(*   scripts/update_leaderboard.py (the Leaderboard Renderer)              *)
(*                                                                         *)
(* Text is a sequence of code points, so that str.lower(), the `in`        *)
(* substring test and the ordering of user names are computed and not      *)
(* assumed.  An optional JSON field is <<>> (absent / null) or <<v>>.      *)
(* A JSON object is a sequence of [k, v] entries in insertion order, the   *)
(* order a Python dict keeps and json.dump writes.                         *)
(***************************************************************************)
EXTENDS Integers, Sequences, FiniteSets, TLC

VARIABLES
    scoreFile,      \* leaderboard.json      [st, body]
    processedFile,  \* processed_ids.json    [st, body]
    docFile,        \* LEADERBOARD.md        [st, body]
    last,           \* the run that just ended: its input's shape and its outcome
    succeeded,      \* history: ids of the events whose Processor run ended in success
    dpIn,           \* detect_points on its own: the event and the config given
    dpOut,          \* detect_points on its own: what it returned
    gmIn,           \* generate_markdown on its own: the leaderboard dict given
    gmOut,          \* generate_markdown on its own: the document returned
    rt,             \* re-running one event: the event and how its runs went
    pc,             \* overlapping runs: each process's position
    loc,            \* overlapping runs: each process's local variables
    hist            \* overlapping runs: history of awards and of overlap

vars == <<scoreFile, processedFile, docFile, last, succeeded,
          dpIn, dpOut, gmIn, gmOut, rt, pc, loc, hist>>

fileVars == <<scoreFile, processedFile, docFile>>

----------------------------------------------------------------------------
(* Bounds of the model *)

\* Largest number of basic-review awards a user's total may amount to; an
\* award that would pass it is not taken.
MaxAwards == 3
\* Largest number of text chunks a review body is assembled from.
MaxChunks == 2
\* Largest number of entries of a leaderboard given to generate_markdown.
MaxEntries == 3
\* Largest number of runs each of the two overlapping processes performs.
MaxRuns == 2

----------------------------------------------------------------------------
(* Text *)

None == <<>>
Some(x) == <<x>>

s_detailed == <<100, 101, 116, 97, 105, 108, 101, 100>>                  \* "detailed"
s_basic_review == <<98, 97, 115, 105, 99, 32, 114, 101, 118, 105, 101, 119>> \* "basic review"
s_performance == <<112, 101, 114, 102, 111, 114, 109, 97, 110, 99, 101>>  \* "performance"
s_submitted == <<115, 117, 98, 109, 105, 116, 116, 101, 100>>            \* "submitted"
s_approved == <<97, 112, 112, 114, 111, 118, 101, 100>>                  \* "approved"
s_top == <<116, 111, 112>>                                               \* "top"
s_empty == <<>>                                                          \* ""
s_no_contributors == <<78, 111, 32, 99, 111, 110, 116, 114, 105, 98, 117, 116, 111, 114, 115, 32, 121, 101, 116>> \* "No contributors yet"

alice == <<97, 108, 105, 99, 101>>   \* "alice"
bob == <<98, 111, 98>>               \* "bob"
carol == <<99, 97, 114, 111, 108>>   \* "carol"
Bob == <<66, 111, 98>>               \* "Bob"

\* str.lower() on one character: 'A'..'Z' move to 'a'..'z'.
LowerChar(c) == IF c >= 65 /\ c <= 90 THEN c + 32 ELSE c

\* str.lower()
Lower(s) == [i \in 1..Len(s) |-> LowerChar(s[i])]

\* (x or '').lower() for an optional text field
LowerOrEmpty(opt) == IF opt = None THEN s_empty ELSE Lower(opt[1])

RECURSIVE ContainsFrom(_, _, _)
\* the scan behind `sub in s`, from offset i on
ContainsFrom(s, sub, i) ==
    IF i + Len(sub) - 1 > Len(s) THEN FALSE
    ELSE IF SubSeq(s, i, i + Len(sub) - 1) = sub THEN TRUE
    ELSE ContainsFrom(s, sub, i + 1)

\* `sub in s` on str
Contains(s, sub) == ContainsFrom(s, sub, 1)

RECURSIVE LexLess(_, _)
\* a < b on str: by code point, a proper prefix first
LexLess(a, b) ==
    IF b = <<>> THEN FALSE
    ELSE IF a = <<>> THEN TRUE
    ELSE IF Head(a) # Head(b) THEN Head(a) < Head(b)
    ELSE LexLess(Tail(a), Tail(b))

RECURSIVE Digits(_)
\* str(n) for n >= 0
Digits(n) == IF n < 10 THEN <<48 + n>> ELSE Digits(n \div 10) \o <<48 + (n % 10)>>

----------------------------------------------------------------------------
(* JSON values and objects *)

Num(n) == [kind |-> "num", n |-> n, s |-> s_empty]
Str(s) == [kind |-> "str", n |-> 0, s |-> s]
Entry(k, v) == [k |-> k, v |-> v]

\* isinstance(v, (int, float))
IsNumber(v) == v.kind = "num"

Keys(d) == {d[i].k : i \in 1..Len(d)}

\* d.get(key, dflt) on a dict whose values are numbers
Get(d, key, dflt) ==
    IF key \in Keys(d)
    THEN d[CHOOSE i \in 1..Len(d) : d[i].k = key].v.n
    ELSE dflt

\* d[key] = Num(n): an existing key keeps its place, a new key goes last
SetItem(d, key, n) ==
    IF key \in Keys(d)
    THEN [i \in 1..Len(d) |-> IF d[i].k = key THEN Entry(key, Num(n)) ELSE d[i]]
    ELSE Append(d, Entry(key, Num(n)))

\* {k: v for k, v in data.items() if k != 'top' and isinstance(v, (int, float))}
FilterUsers(d) == SelectSeq(d, LAMBDA en : en.k # s_top /\ IsNumber(en.v))

----------------------------------------------------------------------------
(* The persisted files.  A file is missing, holds text that is not JSON    *)
(* ("corrupt": what a write that failed after open(..., 'w') truncated the *)
(* file leaves behind), or holds a value.                                  *)

NoDoc == [kind |-> "none", rows |-> <<>>]

Missing == [st |-> "missing", body |-> <<>>]
Corrupt == [st |-> "corrupt", body |-> <<>>]
Ok(b) == [st |-> "ok", body |-> b]
MissingDoc == [st |-> "missing", body |-> NoDoc]
CorruptDoc == [st |-> "corrupt", body |-> NoDoc]

\* The fate of one `with open(path, 'w') as f: json.dump(...)`:
\*   "ok"        the file holds the new content;
\*   "intact"    open() raised (PermissionError, read-only file system): the
\*               file is as it was;
\*   "truncated" the write raised after open() had truncated the file
\*               (IOError, disk full): the file no longer parses.
WriteFates == {"ok", "intact", "truncated"}

WriteFile(old, new, fate, corrupt) ==
    CASE fate = "ok" -> new
      [] fate = "intact" -> old
      [] OTHER -> corrupt

----------------------------------------------------------------------------
(* scripts/assign_points.py *)

RequiredKeys == {"basic_review", "detailed_review", "performance_improvement", "approve_pr"}

\* A config file: the values of its points section and the required keys it lacks.
Config(b, d, p, a, lacks) ==
    [basic_review |-> b, detailed_review |-> d, performance_improvement |-> p,
     approve_pr |-> a, missing |-> lacks]

\* The values the docstring of detect_points and the footer of the document name.
DefaultCfg == Config(5, 10, 4, 3, {})

\* load_config: exit 1 when the file is absent (None) or lacks a required key.
load_config(cfgFile) ==
    IF cfgFile = None THEN [exit |-> 1, cfg |-> DefaultCfg]
    ELSE IF cfgFile[1].missing # {} THEN [exit |-> 1, cfg |-> cfgFile[1]]
    ELSE [exit |-> 0, cfg |-> cfgFile[1]]

\* An event's review and comment objects; user is the login under .user
\* (None when user or login is absent or not an object, s_empty when empty).
Review(user, body, state, id) == [user |-> user, body |-> body, state |-> state, id |-> id]
Comment(user, body, id) == [user |-> user, body |-> body, id |-> id]

\* issue: "absent" (no issue key), "plain" (issue without pull_request),
\*        "pr" (issue with pull_request)
Event(issue, action, review, comment, sender) ==
    [issue |-> issue, action |-> action, review |-> review, comment |-> comment,
     sender |-> sender]

\* load_event: exit 1 when GITHUB_EVENT_PATH is unset or names no file (None),
\* exit 2 for a comment on a regular issue.
load_event(eventFile) ==
    IF eventFile = None THEN 1
    ELSE IF eventFile[1].issue = "plain" THEN 2
    ELSE 0

\* `if login:` on an optional text
Truthy(opt) == opt # None /\ opt[1] # s_empty

extract_user(event) ==
    IF event.review # None /\ Truthy(event.review[1].user)
    THEN [login |-> event.review[1].user, source |-> "review.user"]
    ELSE IF event.comment # None /\ Truthy(event.comment[1].user)
    THEN [login |-> event.comment[1].user, source |-> "comment.user"]
    ELSE IF Truthy(event.sender)
    THEN [login |-> event.sender, source |-> "sender"]
    ELSE [login |-> None, source |-> "none"]

\* A review-tier rule whose second test is an `if`, not an `elif`.
ReviewTierPoints_Both(review_body, cfg) ==
    (IF Contains(review_body, s_detailed) THEN cfg.detailed_review ELSE 0)
    + (IF Contains(review_body, s_basic_review) THEN cfg.basic_review ELSE 0)

\* The review-tier rule, lines 204-209: only the first branch taken scores.
ReviewTierPoints(review_body, cfg) ==
    IF Contains(review_body, s_detailed) THEN cfg.detailed_review
    ELSE IF Contains(review_body, s_basic_review) THEN cfg.basic_review
    ELSE 0

\* The performance rule, lines 212-214.
PerformancePoints(review_body, comment_body, cfg) ==
    IF Contains(comment_body, s_performance) \/ Contains(review_body, s_performance)
    THEN cfg.performance_improvement
    ELSE 0

\* The approval rule, lines 217-219: action is compared as it is, the state lowered.
ApprovalPoints(action, review_state, cfg) ==
    IF action = s_submitted /\ review_state = s_approved THEN cfg.approve_pr ELSE 0

\* detect_points leaving with exit code 2 when no user is found.
detect_points_NoUserSkips(event, cfg) ==
    LET found == extract_user(event)
    IN  IF ~Truthy(found.login)
        THEN [exit |-> 2, points |-> 0, user |-> None]
        ELSE [exit |-> 0,
              points |-> ReviewTierPoints(
                             IF event.review = None THEN s_empty
                             ELSE LowerOrEmpty(event.review[1].body), cfg),
              user |-> found.login]

detect_points(event, cfg) ==
    LET review_body == IF event.review = None THEN s_empty
                       ELSE LowerOrEmpty(event.review[1].body)
        review_state == IF event.review = None THEN s_empty
                        ELSE LowerOrEmpty(event.review[1].state)
        comment_body == IF event.comment = None THEN s_empty
                        ELSE LowerOrEmpty(event.comment[1].body)
        found == extract_user(event)
    IN  IF ~Truthy(found.login)
        THEN [exit |-> 1, points |-> 0, user |-> None]
        ELSE [exit |-> 0,
              points |-> ReviewTierPoints(review_body, cfg)
                           + PerformancePoints(review_body, comment_body, cfg)
                           + ApprovalPoints(event.action, review_state, cfg),
              user |-> found.login]

\* main, lines 272-274: the review's id, else the comment's
event_id(event) ==
    IF event.review # None /\ event.review[1].id # None THEN event.review[1].id
    ELSE IF event.comment # None THEN event.comment[1].id
    ELSE None

\* load_processed_ids: a missing or unparsable file is an empty list
load_processed_ids(pf) == IF pf.st = "ok" THEN pf.body ELSE <<>>

\* A membership test that looks at the newest id only.
InListLast(x, l) == l # <<>> /\ l[Len(l)] = x

\* `event_id in processed_ids`
InList(x, l) == \E i \in 1..Len(l) : l[i] = x

\* An award that stores the points in place of the sum.
AwardedLeaderboard_Overwrite(user, points, sf) ==
    SetItem(IF sf.st = "ok" THEN FilterUsers(sf.body) ELSE <<>>, user, points)

\* update_leaderboard up to its write: the dict it is about to dump
AwardedLeaderboard(user, points, sf) ==
    LET leaderboard == IF sf.st = "ok" THEN FilterUsers(sf.body) ELSE <<>>
    IN  SetItem(leaderboard, user, Get(leaderboard, user, 0) + points)

update_leaderboard(user, points, sf, fate) ==
    WriteFile(sf, Ok(AwardedLeaderboard(user, points, sf)), fate, Corrupt)

save_processed_ids(processed_ids, pf, fate) ==
    WriteFile(pf, Ok(processed_ids), fate, Corrupt)

\* Where a run's write fails, if one does: at "score" (update_leaderboard's
\* dump) or at "ids" (save_processed_ids' dump), and what the failure leaves.
NoFail == [at |-> "none", fate |-> "ok"]
ProcessorFails ==
    {NoFail} \cup [at : {"score", "ids"}, fate : {"intact", "truncated"}]

FateAt(fail, where) == IF fail.at = where THEN fail.fate ELSE "ok"

\* What a run that exits leaves: its outcome, the exit it took, what it had
\* worked out and the two files.
Exit(outcome, reason, id, user, points, sf, pf) ==
    [outcome |-> outcome, reason |-> reason, id |-> id, user |-> user,
     points |-> points, score |-> sf, processed |-> pf]

\* main, lines 288-293: update the leaderboard, then record the id.  Each
\* write that fails ends the run with exit code 1 where it stands.
AwardStage(id, user, points, processed_ids, fail, sf, pf) ==
    LET sf1 == update_leaderboard(user[1], points, sf, FateAt(fail, "score"))
        pf1 == save_processed_ids(Append(processed_ids, id[1]), pf, FateAt(fail, "ids"))
    IN  IF fail.at = "score" THEN Exit("error", "scorewrite", id, user, points, sf1, pf)
        ELSE IF fail.at = "ids" THEN Exit("error", "idswrite", id, user, points, sf1, pf1)
        ELSE Exit("success", "awarded", id, user, points, sf1, pf1)

\* The guards with the zero-points exit taken after the award's writes.
GuardStage_ZeroAfterAward(id, user, points, fail, sf, pf) ==
    LET processed_ids == load_processed_ids(pf)
        awarded == AwardStage(id, user, points, processed_ids, fail, sf, pf)
    IN  IF id = None THEN Exit("noop", "noid", None, user, points, sf, pf)
        ELSE IF InList(id[1], processed_ids)
        THEN Exit("noop", "duplicate", id, user, points, sf, pf)
        ELSE IF points <= 0 /\ awarded.outcome = "success"
        THEN Exit("noop", "zero", id, user, points, awarded.score, awarded.processed)
        ELSE awarded

\* main, lines 271-286, with the id, the user and the points in hand: the
\* three exits with code 2, then the award.
GuardStage(id, user, points, fail, sf, pf) ==
    LET processed_ids == load_processed_ids(pf)
    IN  IF id = None THEN Exit("noop", "noid", None, user, points, sf, pf)
        ELSE IF InList(id[1], processed_ids)
        THEN Exit("noop", "duplicate", id, user, points, sf, pf)
        ELSE IF points <= 0 THEN Exit("noop", "zero", id, user, points, sf, pf)
        ELSE AwardStage(id, user, points, processed_ids, fail, sf, pf)

\* main of assign_points.py, run to its exit: the outcome, the exit taken and
\* the two files as the run leaves them.
AssignPointsMain(cfgFile, eventFile, fail, sf, pf) ==
    LET loaded == load_config(cfgFile)
    IN  IF loaded.exit = 1 THEN Exit("error", "config", None, None, 0, sf, pf)
        ELSE IF load_event(eventFile) = 1 THEN Exit("error", "event", None, None, 0, sf, pf)
        ELSE IF load_event(eventFile) = 2 THEN Exit("noop", "issue", None, None, 0, sf, pf)
        ELSE
        LET event == eventFile[1]
            dp == detect_points(event, loaded.cfg)
        IN  IF dp.exit = 1 THEN Exit("error", "user", None, None, 0, sf, pf)
            ELSE IF dp.exit = 2 THEN Exit("noop", "detect", None, None, 0, sf, pf)
            ELSE GuardStage(event_id(event), dp.user, dp.points, fail, sf, pf)

----------------------------------------------------------------------------
(* scripts/update_leaderboard.py *)

\* load_leaderboard: exit 1 when the file is missing or does not parse
load_leaderboard(sf) ==
    IF sf.st = "ok" THEN [exit |-> 0, leaderboard |-> FilterUsers(sf.body)]
    ELSE [exit |-> 1, leaderboard |-> <<>>]

\* max(leaderboard, key=leaderboard.get): the first key, in the dict's order,
\* whose value no other exceeds
MaxKey(lb) ==
    lb[CHOOSE i \in 1..Len(lb) :
          /\ \A j \in 1..Len(lb) : lb[j].v.n <= lb[i].v.n
          /\ \A j \in 1..(i - 1) : lb[j].v.n < lb[i].v.n].k

\* f"{top_user} ({leaderboard[top_user]} pts)"
TopContributor(lb) ==
    IF lb = <<>> THEN s_no_contributors
    ELSE MaxKey(lb) \o <<32, 40>> \o Digits(Get(lb, MaxKey(lb), 0)) \o <<32, 112, 116, 115, 41>>

\* An output that holds the 'top' entry alone.
TopOutput_Alone(lb) == <<Entry(s_top, Str(TopContributor(lb)))>>

\* update_leaderboard_json up to its write: dict(leaderboard) with output['top'] set
TopOutput(lb) == Append(lb, Entry(s_top, Str(TopContributor(lb))))

update_leaderboard_json(lb, sf, fate) == WriteFile(sf, Ok(TopOutput(lb)), fate, Corrupt)

\* A sort key of the points alone: equal points keep the dict's order.
KeyLess_PointsOnly(x, y) == x.v.n > y.v.n

\* The sort key of line 80, (-points, user): x sorts before y
KeyLess(x, y) == x.v.n > y.v.n \/ (x.v.n = y.v.n /\ LexLess(x.k, y.k))

\* One step of the sort: x goes before the first item it sorts before.
Insert(x, sorted) ==
    LET before == {i \in 1..Len(sorted) : KeyLess(x, sorted[i])}
        at == IF before = {} THEN Len(sorted) + 1
              ELSE CHOOSE i \in before : \A j \in before : i <= j
    IN  SubSeq(sorted, 1, at - 1) \o <<x>> \o SubSeq(sorted, at, Len(sorted))

RECURSIVE SortedLeaders(_)
\* sorted(leaderboard.items(), key=lambda x: (-x[1], x[0])), a stable sort
SortedLeaders(lb) ==
    IF lb = <<>> THEN <<>>
    ELSE Insert(lb[Len(lb)], SortedLeaders(SubSeq(lb, 1, Len(lb) - 1)))

\* lines 90-96: the marker of ranks 1, 2 and 3
Trophy(rank) == IF rank = 1 THEN "gold" ELSE IF rank = 2 THEN "silver"
                ELSE IF rank = 3 THEN "bronze" ELSE "none"

\* The document: the placeholder, or the table's rows in order (the heading
\* and the footer are fixed text).
generate_markdown(lb) ==
    IF lb = <<>> THEN [kind |-> "empty", rows |-> <<>>]
    ELSE LET sorted_leaders == SortedLeaders(lb)
         IN  [kind |-> "table",
              rows |-> [rank \in 1..Len(sorted_leaders) |->
                          [rank |-> rank, trophy |-> Trophy(rank),
                           user |-> sorted_leaders[rank].k,
                           points |-> sorted_leaders[rank].v.n]]]

RendererFails ==
    {NoFail} \cup [at : {"json", "md"}, fate : {"intact", "truncated"}]

\* main of update_leaderboard.py, run to its exit
UpdateLeaderboardMain(fail, sf, df) ==
    LET loaded == load_leaderboard(sf)
        lb == loaded.leaderboard
        sf1 == update_leaderboard_json(lb, sf, FateAt(fail, "json"))
        leaderboard_for_md == SelectSeq(lb, LAMBDA en : en.k # s_top)
        df1 == WriteFile(df, Ok(generate_markdown(leaderboard_for_md)),
                         FateAt(fail, "md"), CorruptDoc)
    IN  IF loaded.exit = 1
        THEN [outcome |-> "error", reason |-> "load", score |-> sf, doc |-> df]
        ELSE IF fail.at = "json"
        THEN [outcome |-> "error", reason |-> "jsonwrite", score |-> sf1, doc |-> df]
        ELSE IF fail.at = "md"
        THEN [outcome |-> "error", reason |-> "mdwrite", score |-> sf1, doc |-> df1]
        ELSE [outcome |-> "success", reason |-> "rendered", score |-> sf1, doc |-> df1]

----------------------------------------------------------------------------
(* Sequential runs: the external trigger starts one job at a time and each *)
(* runs to its exit.                                                       *)

Users == {alice, s_top}
Ids == {1, 2}

s_Basic_Review == <<66, 97, 115, 105, 99, 32, 82, 101, 118, 105, 101, 119>>  \* "Basic Review"
s_commented == <<99, 111, 109, 109, 101, 110, 116, 101, 100>>                \* "commented"
s_created == <<99, 114, 101, 97, 116, 101, 100>>                             \* "created"

OptUsers == {None} \cup {Some(u) : u \in Users}
OptIds == {None} \cup {Some(i) : i \in Ids}

\* The events a run may be given: a submitted review, a comment on a pull
\* request or on a regular issue, and an event only its sender attributes.
ReviewEvents ==
    {Event("absent", s_submitted,
           Some(Review(u, b, Some(s_commented), i)), None, None) :
        u \in OptUsers, b \in {None, Some(s_Basic_Review)}, i \in OptIds}

CommentEvents ==
    {Event(issue, s_created, None, Some(Comment(u, None, Some(1))), None) :
        issue \in {"plain", "pr"}, u \in {None, Some(alice)}}

SenderEvents ==
    {Event("absent", s_submitted,
           Some(Review(None, Some(s_Basic_Review), None, Some(2))), None, Some(alice))}

Events == ReviewEvents \cup CommentEvents \cup SenderEvents

\* What a run is started with: the config file it finds, the event file it
\* finds and the fate of its writes.  A run whose config does not load reads
\* nothing else.
ProcessorInputs ==
    [cfgFile : {Some(DefaultCfg)},
     eventFile : {None} \cup {Some(e) : e \in Events},
     fail : ProcessorFails]
    \cup
    [cfgFile : {None, Some(Config(5, 10, 4, 3, {"approve_pr"}))},
     eventFile : {None},
     fail : {NoFail}]

IdleLast ==
    [job |-> "none", outcome |-> "none", reason |-> "none", hasUser |-> FALSE,
     issueOnly |-> FALSE, wasSucceeded |-> FALSE, wasRecorded |-> FALSE,
     user |-> None, points |-> 0]

\* The users' entries of a score file, as the scripts read them.
UserEntries(sf) == IF sf.st = "ok" THEN FilterUsers(sf.body) ELSE <<>>

\* The number stored under a key of the score file, whatever the key.
Stored(sf, key) ==
    IF sf.st = "ok" /\ \E i \in 1..Len(sf.body) : sf.body[i].k = key /\ IsNumber(sf.body[i].v)
    THEN Some(sf.body[CHOOSE i \in 1..Len(sf.body) : sf.body[i].k = key].v.n)
    ELSE None

WithinBound(sf) ==
    \A i \in 1..Len(sf.body) :
        IsNumber(sf.body[i].v) => sf.body[i].v.n <= MaxAwards * DefaultCfg.basic_review

InitScoreFiles ==
    {Missing, Ok(<<>>), Ok(<<Entry(alice, Num(10)), Entry(bob, Num(15))>>)}

\* The document a Renderer run left for the score file.
DocFor(sf) ==
    IF sf.st = "ok" THEN Ok(generate_markdown(UserEntries(sf))) ELSE MissingDoc

DetectIdle == dpIn = None /\ dpOut = None
RenderIdle == gmIn = None /\ gmOut = None
RetryIdle == rt = None
OverlapIdle == pc = <<>> /\ loc = <<>> /\ hist = <<>>
StudyIdle == DetectIdle /\ RenderIdle /\ RetryIdle /\ OverlapIdle

studyVars == <<dpIn, dpOut, gmIn, gmOut, rt, pc, loc, hist>>

Init ==
    /\ scoreFile \in InitScoreFiles
    /\ processedFile \in {Missing, Ok(<<>>)}
    /\ docFile = DocFor(scoreFile)
    /\ last = IdleLast
    /\ succeeded = {}
    /\ StudyIdle

\* What a Processor run was given, whether or not it got to read it.
InputId(eventFile) == IF eventFile = None THEN None ELSE event_id(eventFile[1])
InputHasUser(eventFile) ==
    eventFile # None /\ Truthy(extract_user(eventFile[1]).login)
InputIssueOnly(eventFile) == eventFile # None /\ eventFile[1].issue = "plain"

\* The ids in the processed-ID file.
RecordedIds(pf) == {load_processed_ids(pf)[i] : i \in 1..Len(load_processed_ids(pf))}

\* One run of the Scoring Processor, to its exit.
ProcessorRun ==
    \E in \in ProcessorInputs :
      \E r \in {AssignPointsMain(in.cfgFile, in.eventFile, in.fail,
                                 scoreFile, processedFile)} :
        /\ WithinBound(r.score)
        /\ scoreFile' = r.score
        /\ processedFile' = r.processed
        /\ last' = [job |-> "processor", outcome |-> r.outcome, reason |-> r.reason,
                    hasUser |-> InputHasUser(in.eventFile),
                    issueOnly |-> InputIssueOnly(in.eventFile),
                    wasSucceeded |-> \E i \in succeeded : InputId(in.eventFile) = Some(i),
                    wasRecorded |-> \E i \in RecordedIds(processedFile) :
                                        InputId(in.eventFile) = Some(i),
                    user |-> IF r.outcome = "success" THEN r.user ELSE None,
                    points |-> IF r.outcome = "success" THEN r.points ELSE 0]
        /\ succeeded' = IF r.outcome = "success"
                        THEN succeeded \cup {r.id[1]} ELSE succeeded
        /\ UNCHANGED <<docFile, studyVars>>

\* One run of the Leaderboard Renderer, to its exit.
RendererRun ==
    \E fail \in RendererFails :
      \E r \in {UpdateLeaderboardMain(fail, scoreFile, docFile)} :
        /\ scoreFile' = r.score
        /\ docFile' = r.doc
        /\ last' = [IdleLast EXCEPT !.job = "renderer", !.outcome = r.outcome,
                                    !.reason = r.reason]
        /\ UNCHANGED <<processedFile, succeeded, studyVars>>

Next == ProcessorRun \/ RendererRun

Spec == Init /\ [][Next]_vars

----------------------------------------------------------------------------
(* detect_points on its own: the initial states draw an event and a config, *)
(* the one action applies detect_points.                                   *)

s_Detailed == <<68, 101, 116, 97, 105, 108, 101, 100>>                   \* "Detailed"
s_BASIC_REVIEW_Performance ==
    <<66, 65, 83, 73, 67, 32, 82, 69, 86, 73, 69, 87, 44, 32,
      80, 101, 114, 102, 111, 114, 109, 97, 110, 99, 101>>               \* "BASIC REVIEW, Performance"
s_Performance == <<80, 101, 114, 102, 111, 114, 109, 97, 110, 99, 101>>  \* "Performance"
s_PERFORMANCE == <<80, 69, 82, 70, 79, 82, 77, 65, 78, 67, 69>>          \* "PERFORMANCE"
s_basic == <<98, 97, 115, 105, 99>>                                      \* "basic"
s_review == <<32, 114, 101, 118, 105, 101, 119>>                         \* " review"
s_detail == <<100, 101, 116, 97, 105, 108>>                              \* "detail"
s_ed == <<101, 100, 32>>                                                 \* "ed "
s_APPROVED == <<65, 80, 80, 82, 79, 86, 69, 68>>                         \* "APPROVED"
s_Submitted == <<83, 117, 98, 109, 105, 116, 116, 101, 100>>             \* "Submitted"

Chunks == {s_Detailed, s_BASIC_REVIEW_Performance, s_Performance, s_basic,
           s_review, s_detail, s_ed}

RECURSIVE Texts(_)
\* The texts assembled from at most n chunks.
Texts(n) ==
    IF n = 0 THEN {s_empty}
    ELSE Texts(n - 1) \cup {t \o c : t \in Texts(n - 1), c \in Chunks}

DetectConfigs == {DefaultCfg, Config(1, 2, 4, 8, {})}

DetectCommentBodies == {None, Some(s_PERFORMANCE), Some(s_Detailed \o s_review)}

\* Events with a review (and perhaps a comment), events with a comment only,
\* and events nobody can be attributed.
DetectEvents ==
    {Event("absent", action,
           Some(Review(Some(alice), Some(body), state, Some(1))), comment, None) :
        action \in {s_submitted, s_Submitted},
        body \in Texts(MaxChunks),
        state \in {None, Some(s_APPROVED), Some(s_commented)},
        comment \in {None} \cup {Some(Comment(Some(bob), b, Some(2))) :
                                    b \in DetectCommentBodies}}
    \cup
    {Event("pr", action, None, Some(Comment(user, b, Some(2))), sender) :
        action \in {s_created, s_submitted},
        b \in DetectCommentBodies,
        user \in {None, Some(s_empty), Some(bob)},
        sender \in {None, Some(carol)}}

InitDetect ==
    /\ dpIn \in {Some([event |-> e, cfg |-> c]) : e \in DetectEvents, c \in DetectConfigs}
    /\ dpOut = None
    /\ scoreFile = Missing
    /\ processedFile = Missing
    /\ docFile = MissingDoc
    /\ last = IdleLast
    /\ succeeded = {}
    /\ RenderIdle /\ RetryIdle /\ OverlapIdle

Detect ==
    /\ dpOut = None
    /\ dpOut' = Some(detect_points(dpIn[1].event, dpIn[1].cfg))
    /\ UNCHANGED <<fileVars, last, succeeded, dpIn, gmIn, gmOut, rt, pc, loc, hist>>

NextDetect == Detect

SpecDetect == InitDetect /\ [][NextDetect]_vars

\* The text occurs in the body once both are read without regard to case:
\* stated on the body as the event carries it.
Mentions(bodyOpt, word) ==
    /\ bodyOpt # None
    /\ \E at \in 0..Len(bodyOpt[1]) :
          /\ at + Len(word) <= Len(bodyOpt[1])
          /\ \A j \in 1..Len(word) : LowerChar(bodyOpt[1][at + j]) = word[j]

ReviewBodyOf(event) == IF event.review = None THEN None ELSE event.review[1].body
ReviewStateOf(event) == IF event.review = None THEN None ELSE event.review[1].state
CommentBodyOf(event) == IF event.comment = None THEN None ELSE event.comment[1].body

\* State equals "approved" without regard to case.
IsApproved(stateOpt) ==
    /\ stateOpt # None
    /\ Len(stateOpt[1]) = Len(s_approved)
    /\ \A j \in 1..Len(s_approved) : LowerChar(stateOpt[1][j]) = s_approved[j]

TierOf(event, cfg) ==
    IF Mentions(ReviewBodyOf(event), s_detailed) THEN cfg.detailed_review
    ELSE IF Mentions(ReviewBodyOf(event), s_basic_review) THEN cfg.basic_review
    ELSE 0

PerformanceOf(event, cfg) ==
    IF Mentions(CommentBodyOf(event), s_performance)
       \/ Mentions(ReviewBodyOf(event), s_performance)
    THEN cfg.performance_improvement ELSE 0

ApprovalOf(event, cfg) ==
    IF event.action = s_submitted /\ IsApproved(ReviewStateOf(event))
    THEN cfg.approve_pr ELSE 0

----------------------------------------------------------------------------
(* generate_markdown on its own: the initial states draw a leaderboard     *)
(* dict, the one action applies generate_markdown.                         *)

RenderUsers == {alice, bob, carol, Bob}
RenderPoints == {0, 5, 10}

\* The dicts of at most n entries, in every insertion order.
RECURSIVE Leaderboards(_)
Leaderboards(n) ==
    IF n = 0 THEN {<<>>}
    ELSE Leaderboards(n - 1)
         \cup {Append(d, Entry(u, Num(pts))) :
                 d \in {x \in Leaderboards(n - 1) : Len(x) = n - 1},
                 u \in RenderUsers, pts \in RenderPoints}

InitRender ==
    /\ gmIn \in {Some(d) : d \in {x \in Leaderboards(MaxEntries) :
                                     Cardinality(Keys(x)) = Len(x)}}
    /\ gmOut = None
    /\ scoreFile = Missing
    /\ processedFile = Missing
    /\ docFile = MissingDoc
    /\ last = IdleLast
    /\ succeeded = {}
    /\ DetectIdle /\ RetryIdle /\ OverlapIdle

Render ==
    /\ gmOut = None
    /\ gmOut' = Some(generate_markdown(gmIn[1]))
    /\ UNCHANGED <<fileVars, last, succeeded, dpIn, dpOut, gmIn, rt, pc, loc, hist>>

NextRender == Render

SpecRender == InitRender /\ [][NextRender]_vars

\* a comes before b in ascending order of user name: at the first place where
\* they differ a has the smaller character, or a ends there and b goes on.
NameBefore(a, b) ==
    \E k \in 1..(Len(b)) :
        /\ k <= Len(a) + 1
        /\ \A j \in 1..(k - 1) : a[j] = b[j]
        /\ (k = Len(a) + 1 \/ a[k] < b[k])

\* C6: for a non-empty score map the document lists each user exactly once
\* with its points, ranks run 1..n without gaps, points descend, and users
\* with equal points ascend by user name; {carol: 5, bob: 5} ranks bob first.
C6_RankedByPointsThenName ==
    (gmOut # None /\ gmIn[1] # <<>>)
       => LET rows == gmOut[1].rows
              n == Len(gmIn[1])
          IN  /\ gmOut[1].kind = "table"
              /\ Len(rows) = n
              /\ \A i \in 1..n : rows[i].rank = i
              /\ \A i \in 1..n :
                    Cardinality({j \in 1..n : rows[j].user = gmIn[1][i].k}) = 1
              /\ \A i \in 1..n : \E j \in 1..n :
                    rows[i].user = gmIn[1][j].k /\ rows[i].points = gmIn[1][j].v.n
              /\ \A i \in 1..n : \A j \in (i + 1)..n :
                    \/ rows[i].points > rows[j].points
                    \/ (rows[i].points = rows[j].points
                          /\ NameBefore(rows[i].user, rows[j].user))
              /\ gmIn[1] = <<Entry(carol, Num(5)), Entry(bob, Num(5))>>
                    => (rows[1].user = bob /\ rows[2].user = carol)

C6_Witness ==
    /\ gmOut # None
    /\ gmIn[1] = <<Entry(carol, Num(5)), Entry(bob, Num(5))>>
    /\ gmOut[1].rows[1].user = bob
    /\ gmOut[1].rows[2].rank = 2

----------------------------------------------------------------------------
(* Claims about sequential runs, checked under Spec *)

ProcessorStep == last'.job = "processor"
FilesUnchanged == scoreFile' = scoreFile /\ processedFile' = processedFile

\* A leaderboard dict as a set of (user, points) pairs: its content without
\* its order.
AsDict(d) == {<<d[i].k, d[i].v.n>> : i \in 1..Len(d)}

\* The rank a document gives a user (0 when the document has no row for it).
RankOf(df, user) ==
    IF df.st = "ok" /\ \E i \in 1..Len(df.body.rows) : df.body.rows[i].user = user
    THEN (CHOOSE i \in 1..Len(df.body.rows) : df.body.rows[i].user = user)
    ELSE 0

C2_Original ==
    [][last'.outcome # "error"
          => \A u \in Users \cup {bob} :
                Stored(scoreFile, u) # None
                   => /\ Stored(scoreFile', u) # None
                      /\ Stored(scoreFile', u)[1] >= Stored(scoreFile, u)[1]]_vars

\* C4: a Processor run that ends in no-op leaves the score file and the
\* processed-ID file as they were.
C4_NoopChangesNothing ==
    [][(ProcessorStep /\ last'.outcome = "noop") => FilesUnchanged]_vars

C4_Witness ==
    /\ last.job = "processor"
    /\ last.outcome = "noop"
    /\ last.reason = "zero"
    /\ UserEntries(scoreFile) # <<>>
    /\ RecordedIds(processedFile) # {}

\* C5 as stated: a Processor run on an event with no resolvable user ends in
\* error, whatever else the event holds.
C5_Original ==
    (last.job = "processor" /\ ~last.hasUser) => last.outcome = "error"

\* C5 amended: a Processor run on an event with no resolvable user ends in
\* error unless the event is a comment on a regular issue, and then it ends
\* in no-op (the issue filter runs before the user is looked for).
C5_NoUserIsErrorUnlessIssueOnly ==
    (last.job = "processor" /\ ~last.hasUser)
       => IF last.issueOnly THEN last.outcome = "noop" ELSE last.outcome = "error"

C5_Witness ==
    /\ last.job = "processor"
    /\ ~last.hasUser
    /\ ~last.issueOnly
    /\ last.wasRecorded
    /\ last.reason = "user"

\* C7 as stated: from the score map {alice: 10, bob: 15} a successful award of
\* 5 points to alice yields {alice: 15, bob: 15}, and the document a Renderer
\* run then produces ranks bob above alice.
C7_Original ==
    /\ [][(AsDict(UserEntries(scoreFile)) = {<<alice, 10>>, <<bob, 15>>}
             /\ ProcessorStep /\ last'.outcome = "success"
             /\ last'.user = Some(alice) /\ last'.points = 5)
          => AsDict(UserEntries(scoreFile')) = {<<alice, 15>>, <<bob, 15>>}]_vars
    /\ []((last.job = "renderer" /\ last.outcome = "success"
             /\ AsDict(UserEntries(scoreFile)) = {<<alice, 15>>, <<bob, 15>>})
          => (RankOf(docFile, bob) # 0 /\ RankOf(docFile, bob) < RankOf(docFile, alice)))

\* C7 amended: the award yields {alice: 15, bob: 15}, and the document ranks
\* alice first and bob second (equal points, ascending user name).
C7_AwardThenAliceAboveBob ==
    /\ [][(AsDict(UserEntries(scoreFile)) = {<<alice, 10>>, <<bob, 15>>}
             /\ ProcessorStep /\ last'.outcome = "success"
             /\ last'.user = Some(alice) /\ last'.points = 5)
          => AsDict(UserEntries(scoreFile')) = {<<alice, 15>>, <<bob, 15>>}]_vars
    /\ []((last.job = "renderer" /\ last.outcome = "success"
             /\ AsDict(UserEntries(scoreFile)) = {<<alice, 15>>, <<bob, 15>>})
          => (RankOf(docFile, alice) = 1 /\ RankOf(docFile, bob) = 2))

C7_Witness ==
    /\ last.job = "renderer"
    /\ last.outcome = "success"
    /\ succeeded # {}
    /\ AsDict(UserEntries(scoreFile)) = {<<alice, 15>>, <<bob, 15>>}
    /\ RankOf(docFile, alice) = 1

\* C8 as stated: after any runs that ended in success or no-op, the document
\* on disk is generate_markdown of the user entries of the score file on disk.
C8_Original ==
    (last.outcome \in {"success", "noop"} /\ scoreFile.st = "ok")
       => docFile = Ok(generate_markdown(UserEntries(scoreFile)))

\* C8 amended: right after a Renderer run that ended in success, the document
\* on disk is generate_markdown of the user entries of the score file on disk.
C8_DocumentFreshAfterRender ==
    (last.job = "renderer" /\ last.outcome = "success")
       => /\ scoreFile.st = "ok"
          /\ docFile = Ok(generate_markdown(UserEntries(scoreFile)))

C8_Witness ==
    /\ last.job = "renderer"
    /\ last.outcome = "success"
    /\ succeeded # {}
    /\ docFile.body.kind = "table"

----------------------------------------------------------------------------
(* Re-running one event: a run that ends in error is started again on the  *)
(* same event, until a run ends otherwise.                                 *)

RetryEvents ==
    {Event("absent", s_submitted,
           Some(Review(Some(u), Some(s_Basic_Review), Some(s_commented), Some(i))),
           None, None) : u \in Users, i \in Ids}

RetryScoreFiles ==
    {Missing, Ok(<<>>), Ok(<<Entry(alice, Num(5))>>),
     Ok(<<Entry(bob, Num(5)), Entry(alice, Num(5)),
          Entry(s_top, Str(TopContributor(<<Entry(bob, Num(5))>>)))>>)}

\* The number stored under a key of the score file, 0 when there is none.
StoredOrZero(sf, key) == IF Stored(sf, key) = None THEN 0 ELSE Stored(sf, key)[1]

InitRetry ==
    /\ scoreFile \in RetryScoreFiles
    /\ processedFile \in {Missing, Ok(<<>>), Ok(<<1>>)}
    /\ docFile = DocFor(scoreFile)
    /\ last = IdleLast
    /\ succeeded = {}
    /\ rt \in {Some([event |-> e,
                     base |-> StoredOrZero(scoreFile, extract_user(e).login[1]),
                     failed |-> FALSE, result |-> "pending"]) : e \in RetryEvents}
    /\ DetectIdle /\ RenderIdle /\ OverlapIdle

\* One run of the Processor on the event; after an error the job is run again.
Attempt ==
    /\ rt[1].result = "pending"
    /\ \E fail \in ProcessorFails :
         \E r \in {AssignPointsMain(Some(DefaultCfg), Some(rt[1].event), fail,
                                    scoreFile, processedFile)} :
            /\ WithinBound(r.score)
            /\ scoreFile' = r.score
            /\ processedFile' = r.processed
            /\ rt' = Some([rt[1] EXCEPT
                              !.failed = rt[1].failed \/ r.outcome = "error",
                              !.result = IF r.outcome = "error" THEN "pending"
                                         ELSE r.outcome])
    /\ UNCHANGED <<docFile, last, succeeded, dpIn, dpOut, gmIn, gmOut, pc, loc, hist>>

NextRetry == Attempt

SpecRetry == InitRetry /\ [][NextRetry]_vars

\* C9 as stated: when runs on an event ended in error at a persistence write,
\* before the event's id was recorded, and the job was re-run until it
\* succeeded, the user's total ends up raised by the event's points once.
C9_Original ==
    (rt[1].result = "success" /\ rt[1].failed)
       => StoredOrZero(scoreFile, extract_user(rt[1].event).login[1])
             = rt[1].base + detect_points(rt[1].event, DefaultCfg).points

----------------------------------------------------------------------------
(* Overlapping runs: two processes, each running jobs one after another,   *)
(* take their reads and writes of the shared files in any interleaving.    *)

Procs == {1, 2}

IdleLoc ==
    [id |-> None, user |-> None, points |-> 0, processed_ids |-> <<>>,
     leaderboard |-> <<>>]

OverlapEvents == RetryEvents

InitOverlap ==
    /\ scoreFile \in {Ok(<<>>), Ok(<<Entry(alice, Num(5))>>)}
    /\ processedFile = Ok(<<>>)
    /\ docFile = DocFor(scoreFile)
    /\ last = IdleLast
    /\ succeeded = {}
    /\ pc = [p \in Procs |-> "idle"]
    /\ loc = [p \in Procs |-> IdleLoc]
    /\ hist = [base |-> scoreFile, awards |-> <<>>, allSuccess |-> TRUE,
               overlapped |-> FALSE, runs |-> [p \in Procs |-> 0]]
    /\ DetectIdle /\ RenderIdle /\ RetryIdle

OthersBusy(p) == \E q \in Procs \ {p} : pc[q] # "idle"

\* A run starts: it may start while another process is in the middle of one.
Started(p) ==
    [hist EXCEPT !.overlapped = hist.overlapped \/ OthersBusy(p)]

\* A run ends: with success or not.
Ended(h, p, success) ==
    [h EXCEPT !.runs[p] = h.runs[p] + 1,
              !.allSuccess = h.allSuccess /\ success]

overlapFrame == <<last, succeeded, dpIn, dpOut, gmIn, gmOut, rt>>

\* assign_points.py main, lines 267-286: config, event, points, id, the read
\* of the processed-ID file and the three guards.
P_Start(p) ==
    /\ pc[p] = "idle"
    /\ hist.runs[p] < MaxRuns
    /\ \E e \in OverlapEvents :
         LET dp == detect_points(e, DefaultCfg)
             id == event_id(e)
             processed_ids == load_processed_ids(processedFile)
         IN  IF InList(id[1], processed_ids) \/ dp.points <= 0
             THEN /\ hist' = Ended(Started(p), p, FALSE)
                  /\ UNCHANGED <<pc, loc>>
             ELSE /\ pc' = [pc EXCEPT ![p] = "p_read"]
                  /\ loc' = [loc EXCEPT ![p] =
                               [IdleLoc EXCEPT !.id = id, !.user = dp.user,
                                               !.points = dp.points,
                                               !.processed_ids = processed_ids]]
                  /\ hist' = Started(p)
    /\ UNCHANGED <<fileVars, overlapFrame>>

\* update_leaderboard, lines 237-249: read the score file, add the points.
P_Read(p) ==
    /\ pc[p] = "p_read"
    /\ WithinBound(Ok(AwardedLeaderboard(loc[p].user[1], loc[p].points, scoreFile)))
    /\ loc' = [loc EXCEPT ![p].leaderboard =
                 AwardedLeaderboard(loc[p].user[1], loc[p].points, scoreFile)]
    /\ pc' = [pc EXCEPT ![p] = "p_write"]
    /\ UNCHANGED <<fileVars, hist, overlapFrame>>

\* update_leaderboard, lines 251-264: write the score file.
P_Write(p) ==
    /\ pc[p] = "p_write"
    /\ \E fate \in WriteFates :
         /\ scoreFile' = WriteFile(scoreFile, Ok(loc[p].leaderboard), fate, Corrupt)
         /\ IF fate = "ok"
            THEN /\ pc' = [pc EXCEPT ![p] = "p_save"]
                 /\ UNCHANGED <<loc, hist>>
            ELSE /\ pc' = [pc EXCEPT ![p] = "idle"]
                 /\ loc' = [loc EXCEPT ![p] = IdleLoc]
                 /\ hist' = Ended(hist, p, FALSE)
    /\ UNCHANGED <<processedFile, docFile, overlapFrame>>

\* main, lines 290-293: append the id to the list read at the start, write it.
P_Save(p) ==
    /\ pc[p] = "p_save"
    /\ \E fate \in WriteFates :
         /\ processedFile' = save_processed_ids(
                                 Append(loc[p].processed_ids, loc[p].id[1]),
                                 processedFile, fate)
         /\ hist' = IF fate = "ok"
                    THEN [Ended(hist, p, TRUE) EXCEPT
                            !.awards = Append(hist.awards,
                                              [id |-> loc[p].id[1],
                                               user |-> loc[p].user[1],
                                               points |-> loc[p].points])]
                    ELSE Ended(hist, p, FALSE)
    /\ pc' = [pc EXCEPT ![p] = "idle"]
    /\ loc' = [loc EXCEPT ![p] = IdleLoc]
    /\ UNCHANGED <<scoreFile, docFile, overlapFrame>>

\* update_leaderboard.py main, line 114: read the score file.
R_Load(p) ==
    /\ pc[p] = "idle"
    /\ hist.runs[p] < MaxRuns
    /\ IF load_leaderboard(scoreFile).exit = 1
       THEN /\ hist' = Ended(Started(p), p, FALSE)
            /\ UNCHANGED <<pc, loc>>
       ELSE /\ pc' = [pc EXCEPT ![p] = "r_json"]
            /\ loc' = [loc EXCEPT ![p] =
                         [IdleLoc EXCEPT !.leaderboard =
                                            load_leaderboard(scoreFile).leaderboard]]
            /\ hist' = Started(p)
    /\ UNCHANGED <<fileVars, overlapFrame>>

\* update_leaderboard_json, lines 55-64: write the score file with 'top'.
R_Json(p) ==
    /\ pc[p] = "r_json"
    /\ \E fate \in WriteFates :
         /\ scoreFile' = update_leaderboard_json(loc[p].leaderboard, scoreFile, fate)
         /\ IF fate = "ok"
            THEN /\ pc' = [pc EXCEPT ![p] = "r_md"]
                 /\ UNCHANGED <<loc, hist>>
            ELSE /\ pc' = [pc EXCEPT ![p] = "idle"]
                 /\ loc' = [loc EXCEPT ![p] = IdleLoc]
                 /\ hist' = Ended(hist, p, FALSE)
    /\ UNCHANGED <<processedFile, docFile, overlapFrame>>

\* main, lines 119-133: generate the document and write it.
R_Md(p) ==
    /\ pc[p] = "r_md"
    /\ \E fate \in WriteFates :
         /\ docFile' = WriteFile(docFile, Ok(generate_markdown(loc[p].leaderboard)),
                                 fate, CorruptDoc)
         /\ hist' = Ended(hist, p, fate = "ok")
    /\ pc' = [pc EXCEPT ![p] = "idle"]
    /\ loc' = [loc EXCEPT ![p] = IdleLoc]
    /\ UNCHANGED <<scoreFile, processedFile, overlapFrame>>

NextOverlap ==
    \E p \in Procs :
        \/ P_Start(p)
        \/ P_Read(p)
        \/ P_Write(p)
        \/ P_Save(p)
        \/ R_Load(p)
        \/ R_Json(p)
        \/ R_Md(p)

SpecOverlap == InitOverlap /\ [][NextOverlap]_vars

RECURSIVE AwardedTo(_, _, _)
\* The points the awards in the list gave a user, counting the awards whose
\* id is among ids.
AwardedTo(awards, user, ids) ==
    IF awards = <<>> THEN 0
    ELSE (IF Head(awards).user = user /\ Head(awards).id \in ids
          THEN Head(awards).points ELSE 0)
         + AwardedTo(Tail(awards), user, ids)

\* Every run has ended, every run ended in success, and the score file holds
\* less for the user than what it held at the start plus the awards whose
\* ids the processed-ID file records.
LostUpdateOf(user) ==
    /\ \A p \in Procs : pc[p] = "idle"
    /\ hist.allSuccess
    /\ StoredOrZero(scoreFile, user)
          < StoredOrZero(hist.base, user)
              + AwardedTo(hist.awards, user, RecordedIds(processedFile))

\* C10 as stated, its second half: when no run overlapped another, no state
\* with a lost update is reachable.
C10_Original ==
    (\E u \in Users : LostUpdateOf(u)) => hist.overlapped

\* C10, its first half: overlapping runs reach a lost update (of a user
\* other than "top").
C10_Witness ==
    /\ hist.overlapped
    /\ LostUpdateOf(alice)

====
